---- MODULE Spec2Model ----
(***************************************************************************)
(* CityLens AI Explorer: the image -> identify -> research -> narrate      *)
(* pipeline of App.tsx, the three service wrappers of GeminiService.ts and *)
(* the audio decoding helpers.                                             *)
(*                                                                         *)
(* Strings are modelled as sequences of tokens; a token is a word, a       *)
(* punctuation mark or a single whitespace character.  Base64 payloads are *)
(* sequences of single characters.                                         *)
(***************************************************************************)
EXTENDS Integers, Sequences, FiniteSets, TLC

(* ---------------------------------------------------------------------- *)
(* Bounds of the model                                                     *)
(* ---------------------------------------------------------------------- *)
\* number of processImage invocations that are in flight at the same time
MaxSessions == 2
\* number of key dialogs opened from the header that are open at a time
MaxHeaderDialogs == 1

Slots == 1..MaxSessions

(* ---------------------------------------------------------------------- *)
(* JavaScript values                                                       *)
(* ---------------------------------------------------------------------- *)
\* undefined / null of a string-typed value (distinct from every string)
Undefined == <<"<undefined>">>
\* null of the analysis state
NoAnalysis == [null |-> TRUE]

\* JavaScript truthiness of an optional string
Truthy(s) == s /= Undefined /\ s /= <<>>

\* a || b on optional strings
OrElse(a, b) == IF Truthy(a) THEN a ELSE b

WhiteSpace == {" ", "\n", "\t"}

RECURSIVE trimStart(_)
trimStart(s) ==
  IF s /= <<>> /\ Head(s) \in WhiteSpace THEN trimStart(Tail(s)) ELSE s

RECURSIVE trimEnd(_)
trimEnd(s) ==
  IF s /= <<>> /\ s[Len(s)] \in WhiteSpace
    THEN trimEnd(SubSeq(s, 1, Len(s) - 1))
    ELSE s

\* String.prototype.trim
trim(s) == trimEnd(trimStart(s))

\* String.prototype.includes
includes(s, pat) ==
  \E i \in 0..(Len(s) - Len(pat)) : SubSeq(s, i + 1, i + Len(pat)) = pat

(* ---------------------------------------------------------------------- *)
(* Literals of the program                                                 *)
(* ---------------------------------------------------------------------- *)
Unknown == <<"Unknown">>
CouldNotIdentifyMsg ==
  <<"Could", " ", "not", " ", "identify", " ", "a", " ", "landmark", " ",
    "in", " ", "this", " ", "photo", ".">>
KeyExpiredPattern ==
  <<"Requested", " ", "entity", " ", "was", " ", "not", " ", "found">>
KeyExpiredMsg ==
  <<"API", " ", "key", " ", "session", " ", "expired", ".", " ", "Please",
    " ", "select", " ", "your", " ", "key", " ", "again", ".">>
UnexpectedMsg ==
  <<"An", " ", "unexpected", " ", "error", " ", "occurred", ".">>
HistoryUnavailable == <<"History", " ", "unavailable", ".">>
AudioFailedMsg == <<"Audio", " ", "generation", " ", "failed">>

(* ---------------------------------------------------------------------- *)
(* GeminiService.ts: audio decoding helpers                                *)
(* ---------------------------------------------------------------------- *)
B64Alphabet ==
  <<"A","B","C","D","E","F","G","H","I","J","K","L","M","N","O","P","Q",
    "R","S","T","U","V","W","X","Y","Z","a","b","c","d","e","f","g","h",
    "i","j","k","l","m","n","o","p","q","r","s","t","u","v","w","x","y",
    "z","0","1","2","3","4","5","6","7","8","9","+","/">>

B64Chars == { B64Alphabet[i] : i \in DOMAIN B64Alphabet }

\* the 6-bit value of a base64 character
B64Value(c) == (CHOOSE i \in DOMAIN B64Alphabet : B64Alphabet[i] = c) - 1

\* the bytes carried by a sequence of 6-bit values (left-over bits dropped)
RECURSIVE B64Bytes(_)
B64Bytes(v) ==
  IF Len(v) >= 4
    THEN LET n == ((v[1] * 64 + v[2]) * 64 + v[3]) * 64 + v[4]
         IN  <<n \div 65536, (n \div 256) % 256, n % 256>>
               \o B64Bytes(SubSeq(v, 5, Len(v)))
  ELSE IF Len(v) = 3
    THEN LET n == ((v[1] * 64 + v[2]) * 64 + v[3]) \div 4
         IN  <<n \div 256, n % 256>>
  ELSE IF Len(v) = 2
    THEN <<(v[1] * 64 + v[2]) \div 16>>
  ELSE <<>>

\* window.atob: whitespace is skipped, up to two trailing "=" of a padded
\* input are removed, and anything else outside the alphabet (or a length
\* of 1 modulo 4) makes it throw
atob(base64) ==
  LET noWs    == SelectSeq(base64, LAMBDA c : c \notin WhiteSpace)
      n       == Len(noWs)
      padded  == n > 0 /\ n % 4 = 0
      cut     == IF padded /\ noWs[n] = "="
                   THEN IF noWs[n - 1] = "=" THEN 2 ELSE 1
                   ELSE 0
      data    == SubSeq(noWs, 1, n - cut)
      valid   == Len(data) % 4 /= 1
                 /\ \A i \in DOMAIN data : data[i] \in B64Chars
  IN  IF valid
        THEN [ok |-> TRUE,
              bytes |-> B64Bytes([i \in DOMAIN data |-> B64Value(data[i])])]
        ELSE [ok |-> FALSE, bytes |-> <<>>]

\* decodeBase64: atob, then one byte per character of the binary string
decodeBase64(base64) == atob(base64)

\* the denominator of the PCM16 -> float normalisation
PCMScale == 32768

\* new Int16Array(data.buffer): little-endian signed 16-bit samples
Int16Array(data) ==
  [k \in 1..(Len(data) \div 2) |->
     LET u == data[2 * k - 1] + 256 * data[2 * k]
     IN  IF u >= PCMScale THEN u - 2 * PCMScale ELSE u]

\* a decoder that reads the samples channel after channel (planar) instead
\* of interleaved
decodeAudioDataPlanar(data, sampleRate, numChannels) ==
  LET dataInt16  == Int16Array(data)
      frameCount == Len(dataInt16) \div numChannels
  IN  IF Len(data) % 2 /= 0 \/ frameCount = 0
        THEN [ok |-> FALSE, sampleRate |-> sampleRate, length |-> 0,
              channels |-> <<>>]
        ELSE [ok |-> TRUE, sampleRate |-> sampleRate, length |-> frameCount,
              channels |->
                [channel \in 1..numChannels |->
                   [i \in 1..frameCount |->
                      [num |-> dataInt16[(channel - 1) * frameCount + i],
                       den |-> PCMScale]]]]

\* decodeAudioData: de-interleave and normalise.  The Int16Array view throws
\* on an odd byte length and createBuffer throws on zero frames.  A float
\* sample is kept as the exact fraction num / den.
decodeAudioData(data, sampleRate, numChannels) ==
  LET dataInt16  == Int16Array(data)
      frameCount == Len(dataInt16) \div numChannels
  IN  IF Len(data) % 2 /= 0 \/ frameCount = 0
        THEN [ok |-> FALSE, sampleRate |-> sampleRate, length |-> 0,
              channels |-> <<>>]
        ELSE [ok |-> TRUE, sampleRate |-> sampleRate, length |-> frameCount,
              channels |->
                [channel \in 1..numChannels |->
                   [i \in 1..frameCount |->
                      [num |-> dataInt16[(i - 1) * numChannels + channel],
                       den |-> PCMScale]]]]

(* ---------------------------------------------------------------------- *)
(* GeminiService.ts: the three service wrappers, as functions of the       *)
(* remote model's response                                                 *)
(* ---------------------------------------------------------------------- *)
\* an identify step that does not trim the response text
identifyLandmarkNoTrim(text) == OrElse(text, Unknown)

\* identifyLandmark: response.text?.trim() || "Unknown"
identifyLandmark(text) ==
  OrElse(IF text = Undefined THEN Undefined ELSE trim(text), Unknown)

\* a grounding chunk without a web reference
NoWeb == [absent |-> TRUE]

\* a research step without the fallback text
getLandmarkHistoryNoFallback(text, grounding) ==
  [history |-> text, sources |-> <<>>]

\* a research step that keeps every chunk, with or without a web reference
getLandmarkHistoryKeepAll(text, grounding) ==
  [history |-> OrElse(text, HistoryUnavailable),
   sources |->
     IF grounding.present
       THEN [i \in DOMAIN grounding.chunks |->
               IF grounding.chunks[i].web = NoWeb
                 THEN [title |-> Undefined, uri |-> Undefined]
                 ELSE [title |-> grounding.chunks[i].web.title,
                       uri |-> grounding.chunks[i].web.uri]]
       ELSE <<>>]

\* getLandmarkHistory: grounding is [present, chunks]; chunks without a web
\* reference are filtered out, the others mapped to {title, uri}
getLandmarkHistory(text, grounding) ==
  [history |-> OrElse(text, HistoryUnavailable),
   sources |->
     IF grounding.present
       THEN LET kept == SelectSeq(grounding.chunks, LAMBDA c : c.web /= NoWeb)
            IN  [i \in DOMAIN kept |->
                   [title |-> kept[i].web.title, uri |-> kept[i].web.uri]]
       ELSE <<>>]

\* a narrate step with the soft fallback of the research step: no payload
\* becomes an empty payload instead of an error
generateNarrationSoft(audioData) ==
  [ok |-> TRUE, value |-> OrElse(audioData, <<>>), message |-> Undefined]

\* a narrate step that returns whatever the response holds
generateNarrationUnchecked(audioData) ==
  [ok |-> TRUE, value |-> audioData, message |-> Undefined]

\* generateNarration: the inline audio payload, or a thrown Error
generateNarration(audioData) ==
  IF ~Truthy(audioData)
    THEN [ok |-> FALSE, value |-> Undefined, message |-> AudioFailedMsg]
    ELSE [ok |-> TRUE, value |-> audioData, message |-> Undefined]

(* ---------------------------------------------------------------------- *)
(* Responses the external collaborators can give                           *)
(* ---------------------------------------------------------------------- *)
\* response.text of the identify call
IdentifyTexts ==
  { Undefined, <<" ">>, <<"Unknown">>, <<" ", "Eiffel", " ", "Tower", "\n">> }

\* response.text of the research call
HistoryTexts == { Undefined, <<>>, <<"Paragraph", " ", "one", ".">> }

\* groundingChunks of the research call
Groundings ==
  { [present |-> FALSE, chunks |-> <<>>],
    [present |-> TRUE,
     chunks  |-> << [web |-> [title |-> <<"Wiki">>, uri |-> <<"https://w">>]],
                    [web |-> NoWeb],
                    [web |-> [title |-> Undefined, uri |-> <<"https://x">>]] >>] }

\* inlineData.data of the narrate call: absent, empty, two bytes of PCM16,
\* not base64
AudioPayloads == { Undefined, <<>>, <<"A", "Q", "A", "=">>, <<"!", "!">> }

\* err.message of an error raised by a service call
ErrorMessages ==
  { Undefined,
    <<"Network", " ", "error">>,
    <<"404", ":", " ">> \o KeyExpiredPattern \o <<".">> }

\* the files the user can pick
Files == {"a.jpg"}

\* the data URL the FileReader produces for a file
DataURL(file) == <<"data:image/jpeg;base64", ",", file>>

\* the sequences over S of length at most n
SeqsUpTo(S, n) == UNION { [1..k -> S] : k \in 0..n }

\* bounds of the arguments the service functions are applied to
MaxChunks == 3
MaxSamples == 4
MaxChannels == 2
MaxTextLen == 3

\* grounding chunks: with a web reference, with a web reference whose title
\* is missing, a second reference with the same title, without web reference
ProbeChunks ==
  { [web |-> [title |-> <<"Wiki">>, uri |-> <<"https://w">>]],
    [web |-> [title |-> Undefined, uri |-> <<"https://x">>]],
    [web |-> [title |-> <<"Wiki">>, uri |-> <<"https://y">>]],
    [web |-> NoWeb] }

\* groundingChunks: absent, or any list of at most MaxChunks chunks
ProbeGroundings ==
  { [present |-> FALSE, chunks |-> <<>>] } \cup
  { [present |-> TRUE, chunks |-> c] : c \in SeqsUpTo(ProbeChunks, MaxChunks) }

\* PCM16 buffers: the bytes of at most MaxSamples little-endian samples,
\* each one of 0, -32768, 32767, -1, 256
ProbeSamples == { <<0, 0>>, <<0, 128>>, <<255, 127>>, <<255, 255>>, <<0, 1>> }
ProbeBuffers ==
  { [k \in 1..(2 * Len(s)) |-> s[(k + 1) \div 2][((k - 1) % 2) + 1]] :
      s \in SeqsUpTo(ProbeSamples, MaxSamples) }

\* response.text of the identify call: absent, or at most MaxTextLen tokens
ProbeTexts ==
  { Undefined } \cup SeqsUpTo({" ", "\n", "Unknown", "unknown", "Eiffel"}, MaxTextLen)

(* ---------------------------------------------------------------------- *)
(* State                                                                   *)
(* ---------------------------------------------------------------------- *)
VARIABLES
  state,            \* useState<AppState>
  error,            \* useState<string | null>
  analysis,         \* useState<LandmarkAnalysis | null>
  imagePreview,     \* useState<string | null>
  isApiKeyChecked,  \* useState(false)
  audioSourceRef,   \* useRef<AudioBufferSourceNode | null>: 0 or a node
  playing,          \* the buffer source nodes started and not stopped or ended
  sess,             \* the processImage invocations in flight, oldest first:
                    \* the position of each in the code, and its locals
  headerPending,    \* openSelectKey dialogs opened from the header, still open
  played,           \* what the playAudio call of the last step did, if any
  probe             \* a pure function under test: its name, its argument
                    \* and, once applied, its value (unused by the app)

vars ==
  <<state, error, analysis, imagePreview, isApiKeyChecked, audioSourceRef,
    playing, sess, headerPending, played, probe>>

AppState ==
  { "IDLE", "LOADING_IMAGE", "SEARCHING_HISTORY", "GENERATING_AUDIO",
    "PLAYING", "ERROR" }

\* positions of one processImage invocation
PCs ==
  { "hasKey",         \* awaiting window.aistudio.hasSelectedApiKey()
    "selectKey",      \* awaiting handleApiKeySelection() before the pipeline
    "reading",        \* reader.readAsDataURL(file) in progress
    "identify",       \* awaiting GeminiService.identifyLandmark
    "history",        \* awaiting GeminiService.getLandmarkHistory
    "narrate",        \* awaiting GeminiService.generateNarration
    "catchSelectKey"  \* awaiting handleApiKeySelection() in the catch block
  }

\* the pipeline stretch of processImage (from setState(LOADING_IMAGE) on)
PipelinePCs == {"reading", "identify", "history", "narrate", "catchSelectKey"}

\* a processImage invocation at its first await.  checked is the value of
\* isApiKeyChecked its closure captured; calls lists the service calls the
\* invocation issued so far and keySelections counts its calls of
\* handleApiKeySelection.
NewSession(file, checked) ==
  [pc |-> "hasKey", file |-> file, checked |-> checked, name |-> Undefined,
   history |-> Undefined, sources |-> <<>>, calls |-> <<>>,
   keySelections |-> 0]

\* no function under test
NoProbe == [fn |-> "none"]

Init ==
  /\ state = "IDLE"
  /\ error = Undefined
  /\ analysis = NoAnalysis
  /\ imagePreview = Undefined
  /\ isApiKeyChecked = FALSE
  /\ audioSourceRef = 0
  /\ playing = {}
  /\ sess = <<>>
  /\ headerPending = 0
  /\ played = "none"
  /\ probe = NoProbe

(* ---------------------------------------------------------------------- *)
(* App.tsx: helpers of the handlers                                        *)
(* ---------------------------------------------------------------------- *)
\* the sample rate of the AudioContext and of the decoded buffer
SampleRate == 24000

\* the file input is rendered only while the stage is IDLE
FileInputRendered == state = "IDLE"

\* "Finish Tour" is rendered inside the immersive view, next to the analysis
FinishTourRendered == state \notin {"IDLE", "ERROR"} /\ analysis /= NoAnalysis

\* "Try Another Photo" is rendered in the error view
TryAnotherRendered == state = "ERROR"

\* the invocations in flight without the one at position i (it returned)
Remove(i) ==
  [j \in 1..(Len(sess) - 1) |-> IF j < i THEN sess[j] ELSE sess[j + 1]]

\* a gate that forgets the key selections made in this run
needsKeySelectionEveryTime(hasKey, checked) == ~hasKey

\* the gate of processImage: no key reported and none selected in this run
needsKeySelection(hasKey, checked) == ~hasKey /\ ~checked

\* a sentinel test that ignores the case of the first letter
isUnknownLowerCase(name) == name = <<"unknown">>

\* name === "Unknown"
isUnknown(name) == name = Unknown

\* a key-expiry test that wants the whole message to be the pattern
isKeyExpiredExact(message) == message = KeyExpiredPattern

\* err.message?.includes("Requested entity was not found")
isKeyExpired(message) ==
  message /= Undefined /\ includes(message, KeyExpiredPattern)

\* a catch block that hides the error's own message
errorTextGeneric(message) == UnexpectedMsg

\* the message the catch block records for an error that is not key expiry
errorText(message) == OrElse(message, UnexpectedMsg)

\* a playAudio / stopExperience that forgets to stop the current source
stopCurrentForgotten == playing

\* the nodes still playing once audioSourceRef.current.stop() was called
stopCurrent ==
  IF audioSourceRef /= 0 THEN playing \ {audioSourceRef} ELSE playing

\* createBufferSource(): a node that is not playing
newSource == CHOOSE n \in 1..(Cardinality(playing) + 1) : n \notin stopCurrent

\* the catch block of processImage, entered by invocation i with an error
\* carrying message; the locals of the try block are out of scope (calls and
\* keySelections are kept: they record what the invocation did)
catch(i, message) ==
  IF isKeyExpired(message)
    THEN /\ error' = KeyExpiredMsg
         /\ sess' = [sess EXCEPT ![i] =
                       [pc |-> "catchSelectKey", file |-> @.file,
                        checked |-> @.checked, name |-> Undefined,
                        history |-> Undefined, sources |-> <<>>,
                        calls |-> @.calls,
                        keySelections |-> @.keySelections + 1]]
         /\ UNCHANGED state
    ELSE /\ error' = errorText(message)
         /\ state' = "ERROR"
         /\ sess' = Remove(i)

\* playAudio(base64Audio): the current source is stopped, the payload
\* decoded, and a new source started and remembered.  A decoding failure
\* rejects the promise playAudio returns, which nobody awaits: nothing is
\* started.  The one await of playAudio is on the already settled promise of
\* decodeAudioData (an async function without an await of its own), so it
\* resumes in the same microtask checkpoint and no other handler runs in
\* between: playAudio is one step.
playAudio(base64Audio) ==
  LET decoded     == decodeBase64(base64Audio)
      audioBuffer == decodeAudioData(decoded.bytes, SampleRate, 1)
  IN  IF decoded.ok /\ audioBuffer.ok
        THEN /\ playing' = stopCurrent \cup {newSource}
             /\ audioSourceRef' = newSource
             /\ played' = IF stopCurrent /= playing THEN "replaced" ELSE "started"
        ELSE /\ playing' = stopCurrent
             /\ played' = "failed"
             /\ UNCHANGED audioSourceRef

(* ---------------------------------------------------------------------- *)
(* App.tsx: processImage, one action per stretch between two awaits        *)
(* ---------------------------------------------------------------------- *)
\* onChange of the file input: processImage(file) runs up to its first await
Submit(file) ==
  /\ FileInputRendered
  /\ Len(sess) < MaxSessions
  /\ sess' = Append(sess, NewSession(file, isApiKeyChecked))
  /\ played' = "none"
  /\ UNCHANGED <<state, error, analysis, imagePreview, isApiKeyChecked,
                 audioSourceRef, playing, headerPending>>
  /\ UNCHANGED probe

\* hasSelectedApiKey() resolved: either the key dialog is opened, or the
\* state is reset and the file is handed to the FileReader
HasKeyReturn(i, hasKey) ==
  /\ i \in DOMAIN sess
  /\ sess[i].pc = "hasKey"
  /\ IF needsKeySelection(hasKey, sess[i].checked)
       THEN /\ sess' = [sess EXCEPT ![i].pc = "selectKey",
                                    ![i].keySelections = @ + 1]
            /\ UNCHANGED <<state, error, analysis>>
       ELSE /\ state' = "LOADING_IMAGE"
            /\ error' = Undefined
            /\ analysis' = NoAnalysis
            /\ sess' = [sess EXCEPT ![i].pc = "reading"]
  /\ played' = "none"
  /\ UNCHANGED <<imagePreview, isApiKeyChecked, audioSourceRef, playing,
                 headerPending>>
  /\ UNCHANGED probe

\* openSelectKey() resolved for the gate: the flag is set and processImage
\* returns without processing the file
SelectKeyReturn(i) ==
  /\ i \in DOMAIN sess
  /\ sess[i].pc = "selectKey"
  /\ isApiKeyChecked' = TRUE
  /\ sess' = Remove(i)
  /\ played' = "none"
  /\ UNCHANGED <<state, error, analysis, imagePreview, audioSourceRef, playing,
                 headerPending>>
  /\ UNCHANGED probe

\* reader.onload: the preview is set and the identify call issued
ReaderLoad(i) ==
  /\ i \in DOMAIN sess
  /\ sess[i].pc = "reading"
  /\ imagePreview' = DataURL(sess[i].file)
  /\ sess' = [sess EXCEPT
       ![i].pc = "identify",
       ![i].calls = Append(@, [op |-> "identifyLandmark",
                               arg |-> DataURL(sess[i].file)])]
  /\ played' = "none"
  /\ UNCHANGED <<state, error, analysis, isApiKeyChecked, audioSourceRef,
                 playing, headerPending>>
  /\ UNCHANGED probe

\* the FileReader fails: no onerror handler is installed, onload never runs
\* and nothing is left of the invocation
ReaderError(i) ==
  /\ i \in DOMAIN sess
  /\ sess[i].pc = "reading"
  /\ sess' = Remove(i)
  /\ played' = "none"
  /\ UNCHANGED <<state, error, analysis, imagePreview, isApiKeyChecked,
                 audioSourceRef, playing, headerPending>>
  /\ UNCHANGED probe

\* identifyLandmark resolved with a response whose text is text
IdentifyReturn(i, text) ==
  /\ i \in DOMAIN sess
  /\ sess[i].pc = "identify"
  /\ LET name == identifyLandmark(text)
     IN  IF isUnknown(name)
           THEN catch(i, CouldNotIdentifyMsg)
           ELSE /\ state' = "SEARCHING_HISTORY"
                /\ sess' = [sess EXCEPT
                     ![i].pc = "history",
                     ![i].name = name,
                     ![i].calls = Append(@, [op |-> "getLandmarkHistory",
                                             arg |-> name])]
                /\ UNCHANGED error
  /\ played' = "none"
  /\ UNCHANGED <<analysis, imagePreview, isApiKeyChecked, audioSourceRef,
                 playing, headerPending>>
  /\ UNCHANGED probe

\* getLandmarkHistory resolved
HistoryReturn(i, text, grounding) ==
  /\ i \in DOMAIN sess
  /\ sess[i].pc = "history"
  /\ LET r == getLandmarkHistory(text, grounding)
     IN  /\ state' = "GENERATING_AUDIO"
         /\ sess' = [sess EXCEPT
              ![i].pc = "narrate",
              ![i].history = r.history,
              ![i].sources = r.sources,
              ![i].calls = Append(@, [op |-> "generateNarration",
                                      arg |-> r.history])]
  /\ played' = "none"
  /\ UNCHANGED <<error, analysis, imagePreview, isApiKeyChecked, audioSourceRef,
                 playing, headerPending>>
  /\ UNCHANGED probe

\* generateNarration resolved or threw "Audio generation failed"
NarrateReturn(i, audioData) ==
  /\ i \in DOMAIN sess
  /\ sess[i].pc = "narrate"
  /\ LET r == generateNarration(audioData)
     IN  IF r.ok
           THEN /\ analysis' = [name |-> sess[i].name,
                                history |-> sess[i].history,
                                sources |-> sess[i].sources,
                                audioData |-> r.value]
                /\ state' = "PLAYING"
                /\ playAudio(r.value)
                /\ sess' = Remove(i)
                /\ UNCHANGED error
           ELSE /\ catch(i, r.message)
                /\ played' = "none"
                /\ UNCHANGED <<analysis, playing, audioSourceRef>>
  /\ UNCHANGED <<imagePreview, isApiKeyChecked, headerPending>>
  /\ UNCHANGED probe

\* a handler that answers an error by issuing the failed call once more
ServiceThrowRetry(i, message) ==
  /\ i \in DOMAIN sess
  /\ sess[i].pc \in {"identify", "history", "narrate"}
  /\ sess' = [sess EXCEPT ![i].calls = Append(@, @[Len(@)])]
  /\ played' = "none"
  /\ UNCHANGED <<state, error, analysis, imagePreview, isApiKeyChecked,
                 audioSourceRef, playing, headerPending>>
  /\ UNCHANGED probe

\* the pending service call of invocation i rejects with an error
ServiceThrow(i, message) ==
  /\ i \in DOMAIN sess
  /\ sess[i].pc \in {"identify", "history", "narrate"}
  /\ catch(i, message)
  /\ played' = "none"
  /\ UNCHANGED <<analysis, imagePreview, isApiKeyChecked, audioSourceRef,
                 playing, headerPending>>
  /\ UNCHANGED probe

\* openSelectKey() resolved inside the catch block
CatchSelectKeyReturn(i) ==
  /\ i \in DOMAIN sess
  /\ sess[i].pc = "catchSelectKey"
  /\ isApiKeyChecked' = TRUE
  /\ state' = "ERROR"
  /\ sess' = Remove(i)
  /\ played' = "none"
  /\ UNCHANGED <<error, analysis, imagePreview, audioSourceRef, playing,
                 headerPending>>
  /\ UNCHANGED probe

(* ---------------------------------------------------------------------- *)
(* App.tsx: the other handlers                                             *)
(* ---------------------------------------------------------------------- *)
\* "Finish Tour"
stopExperience ==
  /\ FinishTourRendered
  /\ playing' = stopCurrent
  /\ state' = "IDLE"
  /\ analysis' = NoAnalysis
  /\ imagePreview' = Undefined
  /\ played' = "none"
  /\ UNCHANGED <<error, isApiKeyChecked, audioSourceRef, sess, headerPending>>
  /\ UNCHANGED probe

\* "Try Another Photo"
TryAnotherPhoto ==
  /\ TryAnotherRendered
  /\ state' = "IDLE"
  /\ played' = "none"
  /\ UNCHANGED <<error, analysis, imagePreview, isApiKeyChecked, audioSourceRef,
                 playing, sess, headerPending>>
  /\ UNCHANGED probe

\* "Change API Key" in the header: handleApiKeySelection up to its await
HeaderClick ==
  /\ headerPending < MaxHeaderDialogs
  /\ headerPending' = headerPending + 1
  /\ played' = "none"
  /\ UNCHANGED <<state, error, analysis, imagePreview, isApiKeyChecked,
                 audioSourceRef, playing, sess>>
  /\ UNCHANGED probe

\* openSelectKey() resolved for a header click
HeaderSelected ==
  /\ headerPending > 0
  /\ headerPending' = headerPending - 1
  /\ isApiKeyChecked' = TRUE
  /\ played' = "none"
  /\ UNCHANGED <<state, error, analysis, imagePreview, audioSourceRef, playing,
                 sess>>
  /\ UNCHANGED probe

\* a started buffer source plays to its end
AudioEnded(src) ==
  /\ src \in playing
  /\ playing' = playing \ {src}
  /\ played' = "none"
  /\ UNCHANGED <<state, error, analysis, imagePreview, isApiKeyChecked,
                 audioSourceRef, sess, headerPending>>
  /\ UNCHANGED probe

Next ==
  \/ \E file \in Files : Submit(file)
  \/ \E i \in Slots, hasKey \in BOOLEAN : HasKeyReturn(i, hasKey)
  \/ \E i \in Slots : SelectKeyReturn(i)
  \/ \E i \in Slots : ReaderLoad(i)
  \/ \E i \in Slots : ReaderError(i)
  \/ \E i \in Slots, text \in IdentifyTexts : IdentifyReturn(i, text)
  \/ \E i \in Slots, text \in HistoryTexts, grounding \in Groundings :
       HistoryReturn(i, text, grounding)
  \/ \E i \in Slots, audioData \in AudioPayloads : NarrateReturn(i, audioData)
  \/ \E i \in Slots, message \in ErrorMessages : ServiceThrow(i, message)
  \/ \E i \in Slots : CatchSelectKeyReturn(i)
  \/ stopExperience
  \/ TryAnotherPhoto
  \/ HeaderClick
  \/ HeaderSelected
  \/ \E src \in playing : AudioEnded(src)

Spec == Init /\ [][Next]_vars

(* ---------------------------------------------------------------------- *)
(* GeminiService.ts: the service functions applied to drawn arguments      *)
(* ---------------------------------------------------------------------- *)
\* the arguments: a research response, a PCM16 buffer with a channel count,
\* an identify response (consumed by the identify step of processImage)
ProbeInputs ==
  { [fn |-> "getLandmarkHistory", applied |-> FALSE, out |-> <<>>,
     arg |-> [text |-> text, grounding |-> grounding]] :
       text \in HistoryTexts, grounding \in ProbeGroundings } \cup
  { [fn |-> "decodeAudioData", applied |-> FALSE, out |-> <<>>,
     arg |-> [data |-> data, sampleRate |-> SampleRate,
              numChannels |-> numChannels]] :
       data \in ProbeBuffers, numChannels \in 1..MaxChannels } \cup
  { [fn |-> "identifyLandmark", arg |-> text] : text \in ProbeTexts }

PureInit ==
  /\ state = "IDLE"
  /\ error = Undefined
  /\ analysis = NoAnalysis
  /\ imagePreview = Undefined
  /\ isApiKeyChecked = FALSE
  /\ audioSourceRef = 0
  /\ playing = {}
  /\ sess = <<>>
  /\ headerPending = 0
  /\ played = "none"
  /\ probe \in ProbeInputs

\* getLandmarkHistory applied to the drawn response
ApplyGetLandmarkHistory ==
  /\ probe.fn = "getLandmarkHistory"
  /\ ~probe.applied
  /\ probe' = [probe EXCEPT
       !.applied = TRUE,
       !.out = getLandmarkHistory(probe.arg.text, probe.arg.grounding)]
  /\ UNCHANGED <<state, error, analysis, imagePreview, isApiKeyChecked,
                 audioSourceRef, playing, sess, headerPending, played>>

\* decodeAudioData applied to the drawn buffer
ApplyDecodeAudioData ==
  /\ probe.fn = "decodeAudioData"
  /\ ~probe.applied
  /\ probe' = [probe EXCEPT
       !.applied = TRUE,
       !.out = decodeAudioData(probe.arg.data, probe.arg.sampleRate,
                               probe.arg.numChannels)]
  /\ UNCHANGED <<state, error, analysis, imagePreview, isApiKeyChecked,
                 audioSourceRef, playing, sess, headerPending, played>>

\* processImage up to the identify step, with a provider that reports an
\* active credential and an identify call that resolves with the drawn text
PureNext ==
  \/ ApplyGetLandmarkHistory
  \/ ApplyDecodeAudioData
  \/ probe.fn = "identifyLandmark" /\ \E file \in Files : Submit(file)
  \/ probe.fn = "identifyLandmark" /\ \E i \in Slots : HasKeyReturn(i, TRUE)
  \/ probe.fn = "identifyLandmark" /\ \E i \in Slots : ReaderLoad(i)
  \/ probe.fn = "identifyLandmark"
       /\ \E i \in Slots : IdentifyReturn(i, probe.arg)

PureSpec == PureInit /\ [][PureNext]_vars

(* ---------------------------------------------------------------------- *)
(* What the environment guarantees: every promise of the provider's key    *)
(* check, of the FileReader and of a service call settles.  Nothing is     *)
(* assumed of the key dialog or of the user.                               *)
(* ---------------------------------------------------------------------- *)
\* the pending await of invocation i settles
Settles(i) ==
  \/ \E hasKey \in BOOLEAN : HasKeyReturn(i, hasKey)
  \/ ReaderLoad(i)
  \/ ReaderError(i)
  \/ \E text \in IdentifyTexts : IdentifyReturn(i, text)
  \/ \E text \in HistoryTexts, grounding \in Groundings :
       HistoryReturn(i, text, grounding)
  \/ \E audioData \in AudioPayloads : NarrateReturn(i, audioData)
  \/ \E message \in ErrorMessages : ServiceThrow(i, message)

FairSpec == Init /\ [][Next]_vars /\ \A i \in Slots : WF_vars(Settles(i))

(* ---------------------------------------------------------------------- *)
(* Properties                                                              *)
(* ---------------------------------------------------------------------- *)
\* the service calls of one invocation, in the order of the pipeline
PipelineOps == <<"identifyLandmark", "getLandmarkHistory", "generateNarration">>

\* C1: whenever the identify step yields exactly "Unknown", that step puts
\* the stage to ERROR with the could-not-identify message and ends the
\* invocation, which has issued the identify call and nothing else: no
\* research call and no narrate call is ever issued for it.
C1_UnknownFailsWithoutFurtherCalls ==
  [][\A i \in Slots, text \in IdentifyTexts :
       (IdentifyReturn(i, text) /\ identifyLandmark(text) = Unknown) =>
          /\ state' = "ERROR"
          /\ error' = CouldNotIdentifyMsg
          /\ sess' = Remove(i)
          /\ \A k \in DOMAIN sess[i].calls :
               sess[i].calls[k].op = "identifyLandmark"]_vars

\* C1 witness: a session has failed with the could-not-identify message
C1_Witness == state = "ERROR" /\ error = CouldNotIdentifyMsg

\* C2: whenever the narrate response carries no audio payload, that step
\* puts the stage to ERROR with "Audio generation failed", leaves the
\* analysis alone, starts no playback and ends the invocation (which
\* therefore never reaches PLAYING).
C2_NoAudioFails ==
  [][\A i \in Slots, audioData \in AudioPayloads :
       (NarrateReturn(i, audioData) /\ ~Truthy(audioData)) =>
          /\ state' = "ERROR"
          /\ error' = AudioFailedMsg
          /\ analysis' = analysis
          /\ played' = "none"
          /\ playing' = playing
          /\ sess' = Remove(i)]_vars

\* C2 witness: a session has failed with the audio-generation-failed message
C2_Witness == state = "ERROR" /\ error = AudioFailedMsg

\* C3: at most one buffer source is playing at any time, and right after a
\* playback was started the one source playing is the one just started.
C3_AtMostOnePlayback ==
  /\ Cardinality(playing) <= 1
  /\ played \in {"started", "replaced"} => playing = {audioSourceRef}

\* C3 witness: a playback was started while the previous one was still
\* playing, and the previous one was stopped
C3_Witness == played = "replaced" /\ playing = {audioSourceRef}

\* a pending service call of invocation i resolves or rejects
ServiceCompletes(i) ==
  \/ \E text \in IdentifyTexts : IdentifyReturn(i, text)
  \/ \E text \in HistoryTexts, grounding \in Groundings :
       HistoryReturn(i, text, grounding)
  \/ \E audioData \in AudioPayloads : NarrateReturn(i, audioData)
  \/ \E message \in ErrorMessages : ServiceThrow(i, message)

\* C4: once a later submission has started its pipeline, no service result
\* or error of an earlier submission still in flight changes the stage, the
\* error or the analysis, or starts a playback.
C4_LaterSubmissionSupersedes ==
  [][\A i, j \in Slots :
       (/\ i < j
        /\ j \in DOMAIN sess
        /\ sess[j].pc \in PipelinePCs
        /\ ServiceCompletes(i)) =>
          /\ UNCHANGED <<state, error, analysis>>
          /\ played' \notin {"started", "replaced"}]_vars

\* the stage changes of the state machine
StageChanges ==
  { <<"IDLE", "LOADING_IMAGE">>,
    <<"LOADING_IMAGE", "SEARCHING_HISTORY">>,
    <<"SEARCHING_HISTORY", "GENERATING_AUDIO">>,
    <<"GENERATING_AUDIO", "PLAYING">>,
    <<"LOADING_IMAGE", "ERROR">>,
    <<"SEARCHING_HISTORY", "ERROR">>,
    <<"GENERATING_AUDIO", "ERROR">>,
    <<"PLAYING", "IDLE">>,
    <<"ERROR", "IDLE">> }

\* C5: every change of the stage is one of the changes of the state machine:
\* forward through the pipeline, from a pipeline stage to ERROR, or from
\* PLAYING or ERROR back to IDLE.
C5_OneDirection ==
  [][state' /= state => <<state, state'>> \in StageChanges]_vars

\* C6: the calls an invocation has issued are an initial stretch of identify,
\* research, narrate, each at most once and one at a time: the research call
\* is there only once identify returned a name other than "Unknown", and
\* carries that name; the narrate call is there only once research returned,
\* and carries its history; an invocation whose call failed issues none.
C6_SequentialNoRetry ==
  \A i \in DOMAIN sess :
    LET r == sess[i]
        n == Len(r.calls)
    IN  /\ n <= Len(PipelineOps)
        /\ \A k \in 1..n : r.calls[k].op = PipelineOps[k]
        /\ r.pc \in {"hasKey", "selectKey", "reading"} => n = 0
        /\ r.pc = "identify" => n = 1
        /\ r.pc = "history" =>
             /\ n = 2
             /\ Truthy(r.name) /\ r.name /= Unknown
             /\ r.calls[2].arg = r.name
        /\ r.pc = "narrate" =>
             /\ n = 3
             /\ Truthy(r.name) /\ r.name /= Unknown
             /\ r.calls[2].arg = r.name
             /\ Truthy(r.history)
             /\ r.calls[3].arg = r.history
        /\ r.pc = "catchSelectKey" => n >= 1

\* C6 witness: an invocation has issued its three calls, one after the other
C6_Witness ==
  \E i \in DOMAIN sess : sess[i].pc = "narrate" /\ Len(sess[i].calls) = 3

\* the invocations waiting for the key dialog of the catch block
CatchWaiting == { i \in DOMAIN sess : sess[i].pc = "catchSelectKey" }

C8_HistoryFallback ==
  [][\A i \in Slots, text \in {Undefined, <<>>}, grounding \in Groundings :
       HistoryReturn(i, text, grounding) =>
          /\ i \in DOMAIN sess'
          /\ sess'[i].pc = "narrate"
          /\ sess'[i].history = HistoryUnavailable
          /\ sess'[i].calls[Len(sess'[i].calls)] =
               [op |-> "generateNarration", arg |-> HistoryUnavailable]
          /\ state' = "GENERATING_AUDIO"
          /\ error' = error]_vars

\* C8 witness: an invocation narrates the fallback text
C8_Witness ==
  \E i \in DOMAIN sess :
    sess[i].pc = "narrate" /\ sess[i].history = HistoryUnavailable

\* C9: an analysis that is present has a name other than "Unknown", a
\* non-empty history and a non-empty audio payload.
C9_AnalysisComplete ==
  analysis /= NoAnalysis =>
    /\ Truthy(analysis.name) /\ analysis.name /= Unknown
    /\ Truthy(analysis.history)
    /\ Truthy(analysis.audioData)

\* C9 witness: an analysis is present, built on the fallback history
C9_Witness ==
  /\ analysis /= NoAnalysis
  /\ analysis.history = HistoryUnavailable
  /\ state = "PLAYING"

\* C10: a step starts a playback exactly when it is a narrate result that
\* puts the stage to PLAYING.
C10_ReadyPlaysOnce ==
  [][(\E i \in Slots, audioData \in AudioPayloads :
        NarrateReturn(i, audioData) /\ state' = "PLAYING")
       <=> played' \in {"started", "replaced"}]_vars

\* C11: a step in which a submission puts the stage to LOADING_IMAGE leaves
\* no buffer source playing.
C11_NoPlaybackWhenIdentifying ==
  [][\A i \in Slots, hasKey \in BOOLEAN :
       (HasKeyReturn(i, hasKey) /\ state' = "LOADING_IMAGE"
          /\ sess'[i].pc = "reading") =>
          playing' = {}]_vars

\* C12: when a service call fails with a message that does not contain the
\* key-expired pattern, that step puts the stage to ERROR, records the
\* error's own message (the generic one if it has none), ends the invocation
\* and opens no key dialog.
C12_OtherErrorsPassThrough ==
  [][\A i \in Slots, message \in ErrorMessages :
       (/\ ServiceThrow(i, message)
        /\ ~(message /= Undefined /\ includes(message, KeyExpiredPattern))) =>
          /\ state' = "ERROR"
          /\ error' = IF message \in {Undefined, <<>>}
                        THEN UnexpectedMsg
                        ELSE message
          /\ sess' = Remove(i)
          /\ UNCHANGED <<isApiKeyChecked, headerPending>>]_vars

\* C12 witness: a session failed with the error's own message
C12_Witness ==
  /\ state = "ERROR"
  /\ error = <<"Network", " ", "error">>
  /\ ~isApiKeyChecked

WebPositions(grounding) ==
  IF grounding.present
    THEN { j \in DOMAIN grounding.chunks : grounding.chunks[j].web /= NoWeb }
    ELSE {}

\* C14: the sources getLandmarkHistory returns are as many as the chunks
\* with a web reference, and the k-th source carries the title and the uri
\* of the k-th such chunk, whatever they are; an absent list gives no source.
C14_SourcesAreWebSubsequence ==
  (probe.fn = "getLandmarkHistory" /\ probe.applied) =>
     LET grounding == probe.arg.grounding
         sources   == probe.out.sources
         web       == WebPositions(grounding)
     IN  /\ Len(sources) = Cardinality(web)
         /\ \A j \in web :
              sources[Cardinality({ m \in web : m <= j })] =
                [title |-> grounding.chunks[j].web.title,
                 uri   |-> grounding.chunks[j].web.uri]
         /\ ~grounding.present => sources = <<>>

\* C14 witness: a chunk without web reference between two chunks with one
\* has been dropped, the second source has no title
C14_Witness ==
  /\ probe.fn = "getLandmarkHistory" /\ probe.applied
  /\ Len(probe.arg.grounding.chunks) = 3
  /\ probe.arg.grounding.chunks[2].web = NoWeb
  /\ probe.out.sources =
       << [title |-> <<"Wiki">>, uri |-> <<"https://y">>],
          [title |-> Undefined, uri |-> <<"https://x">>] >>

\* the decoded buffer has N / C frames per channel, channel c holds at
\* frame i the sample i * C + c of the 16-bit view over 32768, and every
\* value lies in [-1, 1)
DecodedAsInterleaved(data, numChannels, out) ==
  LET samples == Int16Array(data)
      N       == Len(data) \div 2
  IN  /\ out.ok
      /\ out.length * numChannels = N
      /\ Len(out.channels) = numChannels
      /\ \A c \in 1..numChannels :
           /\ Len(out.channels[c]) = out.length
           /\ \A i \in 1..out.length :
                LET v == out.channels[c][i]
                IN  /\ v.den = 32768
                    /\ v.num = samples[(i - 1) * numChannels + c]
                    /\ -v.den <= v.num /\ v.num < v.den

\* C15 as stated: every buffer of N samples with C dividing N, the empty
\* buffer included, decodes to N / C frames per channel.
C15_DecodeEveryBuffer ==
  (/\ probe.fn = "decodeAudioData" /\ probe.applied
   /\ (Len(probe.arg.data) \div 2) % probe.arg.numChannels = 0) =>
     DecodedAsInterleaved(probe.arg.data, probe.arg.numChannels, probe.out)

\* C15: every buffer of N >= 1 samples with C dividing N decodes to N / C
\* frames per channel, sample i * C + c over 32768 at frame i of channel c,
\* all within [-1, 1).
C15_DecodeNonEmptyBuffer ==
  (/\ probe.fn = "decodeAudioData" /\ probe.applied
   /\ Len(probe.arg.data) >= 2
   /\ (Len(probe.arg.data) \div 2) % probe.arg.numChannels = 0) =>
     DecodedAsInterleaved(probe.arg.data, probe.arg.numChannels, probe.out)

\* C15 witness: two channels, two frames: -32768 then -1 on the first,
\* 32767 then 256 on the second
C15_Witness ==
  /\ probe.fn = "decodeAudioData" /\ probe.applied
  /\ probe.arg.numChannels = 2
  /\ probe.arg.data = <<0, 128, 255, 127, 255, 255, 0, 1>>
  /\ probe.out.ok /\ probe.out.length = 2
  /\ probe.out.channels[1] =
       << [num |-> -32768, den |-> 32768], [num |-> -1, den |-> 32768] >>
  /\ probe.out.channels[2] =
       << [num |-> 32767, den |-> 32768], [num |-> 256, den |-> 32768] >>

\* C16: a narrate step whose payload fails to decode inside playAudio does
\* not leave the stage at PLAYING with no error recorded and nothing started.
C16_DecodeFailureNotSwallowed ==
  [][\A i \in Slots, audioData \in AudioPayloads :
       (NarrateReturn(i, audioData) /\ played' = "failed") =>
          ~(/\ state' = "PLAYING"
            /\ error' = Undefined
            /\ audioSourceRef' \notin playing')]_vars

\* a response text that is missing, empty or made of whitespace only
Blank(text) ==
  text = Undefined \/ \A k \in DOMAIN text : text[k] \in WhiteSpace

\* a text from its first to its last character that is not whitespace
Core(text) ==
  LET ink == { k \in DOMAIN text : text[k] \notin WhiteSpace }
      lo  == CHOOSE k \in ink : \A m \in ink : k <= m
      hi  == CHOOSE k \in ink : \A m \in ink : m <= k
  IN  SubSeq(text, lo, hi)

\* C17: an identify response whose text is missing, empty or whitespace
\* gives the name "Unknown", and the step puts the stage to ERROR with the
\* could-not-identify message and ends the invocation, which has issued the
\* identify call only; any other text gives the text between its first and
\* last non-whitespace character, and unless that is exactly "Unknown" the
\* step puts the stage to SEARCHING_HISTORY and issues the research call
\* for that name.
C17_BlankIsUnknownElseTrimmed ==
  [][\A i \in Slots :
       (probe.fn = "identifyLandmark" /\ IdentifyReturn(i, probe.arg)) =>
          LET text == probe.arg
          IN  IF Blank(text)
                THEN /\ identifyLandmark(text) = <<"Unknown">>
                     /\ state' = "ERROR"
                     /\ error' = CouldNotIdentifyMsg
                     /\ sess' = Remove(i)
                     /\ \A k \in DOMAIN sess[i].calls :
                          sess[i].calls[k].op /= "getLandmarkHistory"
                ELSE /\ identifyLandmark(text) = Core(text)
                     /\ Core(text) /= <<"Unknown">> =>
                          /\ state' = "SEARCHING_HISTORY"
                          /\ error' = error
                          /\ sess'[i].pc = "history"
                          /\ sess'[i].name = Core(text)
                          /\ sess'[i].calls[Len(sess'[i].calls)] =
                               [op |-> "getLandmarkHistory", arg |-> Core(text)]]_vars

\* C17 witness: " unknown\n" was trimmed to "unknown", which is researched
C17_Witness ==
  /\ probe.fn = "identifyLandmark"
  /\ probe.arg = <<" ", "unknown", "\n">>
  /\ state = "SEARCHING_HISTORY"
  /\ \E i \in DOMAIN sess :
       sess[i].pc = "history" /\ sess[i].name = <<"unknown">>

\* C18: "Finish Tour" pressed in PLAYING leaves the stage IDLE, no analysis,
\* no preview and no source playing; "Try Another Photo" pressed in ERROR
\* leaves the stage IDLE and no analysis.
C18_ResetReturnsToStart ==
  [][/\ (stopExperience /\ state = "PLAYING") =>
          /\ state' = "IDLE"
          /\ analysis' = NoAnalysis
          /\ imagePreview' = Undefined
          /\ playing' = {}
     /\ (TryAnotherPhoto /\ state = "ERROR") =>
          /\ state' = "IDLE"
          /\ analysis' = NoAnalysis]_vars

\* C19: whenever the stage is LOADING_IMAGE, SEARCHING_HISTORY or
\* GENERATING_AUDIO, it is eventually PLAYING or ERROR.
C19_EventuallyReadyOrFailed ==
  (state \in {"LOADING_IMAGE", "SEARCHING_HISTORY", "GENERATING_AUDIO"})
     ~> (state \in {"PLAYING", "ERROR"})

\* C20: the key check of a submission hands the file to the reader only if
\* the provider reported a key or the flag read at submission was set;
\* otherwise it opens the key dialog and leaves stage, error, analysis and
\* preview alone, the stage being IDLE, and when the dialog closes the
\* invocation ends, still without a service call, without touching them and
\* with the stage IDLE.  An invocation that has issued a service call is
\* past the gate.
C20_CredentialGate ==
  [][\A i \in Slots :
       /\ \A hasKey \in BOOLEAN :
            HasKeyReturn(i, hasKey) =>
               IF hasKey \/ sess[i].checked
                 THEN sess'[i].pc = "reading" /\ sess'[i].calls = <<>>
                 ELSE /\ sess'[i].pc = "selectKey"
                      /\ sess'[i].keySelections = 1
                      /\ sess'[i].calls = <<>>
                      /\ UNCHANGED <<state, error, analysis, imagePreview>>
                      /\ state' = "IDLE"
       /\ SelectKeyReturn(i) =>
            /\ sess[i].calls = <<>>
            /\ sess' = Remove(i)
            /\ UNCHANGED <<state, error, analysis, imagePreview>>
            /\ state' = "IDLE"
       /\ (i \in DOMAIN sess' /\ sess'[i].calls /= <<>>) =>
            sess'[i].pc \notin {"hasKey", "selectKey"}]_vars

====
